---- MODULE Spec2Model ----
(***************************************************************************)
(* A model of app.ts, the task list.  The program keeps its state in the   *)
(* DOM: two <ul> lists of <li> elements, the two input fields, the count   *)
(* badges, the dragged-item reference, the pending setTimeout callbacks    *)
(* and the two localStorage entries.  One action per event handler or      *)
(* timer callback; time passes in steps of 100 ms (Tick).                  *)
(*                                                                         *)
(* Strings are sequences of one-character strings, so that trim() is       *)
(* computed.  Of the CSS classes the two indicators of a drag on an item,  *)
(* dragging and drag-over, are kept.  Animations, the theme and the sync   *)
(* indicator are left out: no handler reads them.                          *)
(***************************************************************************)
EXTENDS Integers, Sequences, FiniteSets, TLC

\* ------------------------------------------------------------- bounds
\* Number of ids generateId() hands out in one page session.
MaxTasks == 2
\* Clicks on the buttons of items (checkbox, restore, delete, edit) and drags
\* started in one page session.
MaxClicks == 2
\* Elements of the array the entry taskList_todos holds when the page is
\* loaded; the array of taskList_completed holds one fewer at most.
MaxStored == 3

\* ---------------------------------------------------- program constants
\* setTimeout delays, in units of 100 ms.
CompleteDelay == 4
RestoreDelay == 3
RemoveDelay == 3
SaveDelay == 5

\* ------------------------------------------------------------- inputs
\* What the user types into the two fields of the input card.
TitleTyped == { <<" ">>, <<" ", "a">> }
DescTyped == { <<"<", " ">> }
\* What the user types into the two inputs of an item in editing mode.
EditTitleTyped == { <<" ">>, <<"&", " ">> }
EditDescTyped == { <<>> }

Null == 0
NoTimer == -1

VARIABLES
  todoList,               \* #todoList: sequence of li records, in DOM order
  completedList,          \* #completedList: sequence of li records
  timers,                 \* pending complete/restore/remove timeouts, in setTimeout order
  saveTimer,              \* the debounce timeout of saveToStorage: NoTimer or time left
  storage,                \* localStorage entries taskList_todos, taskList_completed:
                          \* what kind of text each holds and, for an array, its elements
  todoCount,              \* text of #todoCount
  completedCount,         \* text of #completedCount
  todoEmptyShown,         \* #todoEmpty is displayed
  completedSectionShown,  \* #completedSection is displayed
  draggedItem,            \* the module variable draggedItem: a node or Null
  taskTitle,              \* value of the #taskTitle input
  taskDescription,        \* value of the #taskDescription input
  nextId,                 \* the next id generateId() returns
  clicks                  \* the user's clicks on items so far

vars == << todoList, completedList, timers, saveTimer, storage, todoCount,
           completedCount, todoEmptyShown, completedSectionShown, draggedItem,
           taskTitle, taskDescription, nextId, clicks >>

\* ------------------------------------------------------------ helpers
RECURSIVE TrimStart(_)
TrimStart(s) ==
  IF s # <<>> /\ Head(s) = " " THEN TrimStart(Tail(s)) ELSE s

RECURSIVE TrimEnd(_)
TrimEnd(s) ==
  IF s # <<>> /\ s[Len(s)] = " " THEN TrimEnd(SubSeq(s, 1, Len(s) - 1)) ELSE s

\* String.prototype.trim
Trim(s) == TrimEnd(TrimStart(s))

\* The characters of a string literal
Amp == <<"&", "a", "m", "p", ";">>
Lt == <<"&", "l", "t", ";">>
Gt == <<"&", "g", "t", ";">>

StartsWith(s, prefix) ==
  Len(s) >= Len(prefix) /\ SubSeq(s, 1, Len(prefix)) = prefix

DropChars(s, k) == SubSeq(s, k + 1, Len(s))

\* escapeHtml: the innerHTML of a div whose textContent is the text
RECURSIVE EscapeHtml(_)
EscapeHtml(text) ==
  IF text = <<>> THEN <<>>
  ELSE (CASE Head(text) = "&" -> Amp
          [] Head(text) = "<" -> Lt
          [] Head(text) = ">" -> Gt
          [] OTHER -> <<Head(text)>>) \o EscapeHtml(Tail(text))

\* The textContent of a span whose innerHTML is the markup: the parser
\* resolves the character references
RECURSIVE TextContent(_)
TextContent(html) ==
  IF html = <<>> THEN <<>>
  ELSE IF StartsWith(html, Amp) THEN <<"&">> \o TextContent(DropChars(html, Len(Amp)))
  ELSE IF StartsWith(html, Lt) THEN <<"<">> \o TextContent(DropChars(html, Len(Lt)))
  ELSE IF StartsWith(html, Gt) THEN <<">">> \o TextContent(DropChars(html, Len(Gt)))
  ELSE <<Head(html)>> \o TextContent(Tail(html))

\* What the span made from <span ...>${escapeHtml(text)}</span> reads back;
\* for an empty description no span is made and the code reads ''
Rendered(text) == TextContent(EscapeHtml(text))

\* a || b on strings: the empty string is falsy
OrElse(a, b) == IF a # <<>> THEN a ELSE b

Nodes(list) == { list[i].node : i \in 1..Len(list) }

Ids(list) == { list[i].id : i \in 1..Len(list) }

IndexOf(list, n) == CHOOSE i \in 1..Len(list) : list[i].node = n

Attached(n) == n \in Nodes(todoList) \cup Nodes(completedList)

\* li.closest('.task-list'): the list holding the node, or Null when detached
Closest(n) ==
  IF n \in Nodes(todoList) THEN "todoList"
  ELSE IF n \in Nodes(completedList) THEN "completedList"
  ELSE "null"

\* document.createElement: a node no reference denotes
UsedNodes ==
  Nodes(todoList) \cup Nodes(completedList)
    \cup { timers[i].li : i \in 1..Len(timers) } \cup { draggedItem }

Fresh(used) == CHOOSE n \in 1..(Cardinality(used) + 1) : n \notin used

FreshNode == Fresh(UsedNodes)

\* element.remove(): a no-op on a node that is not in the list
DomRemove(list, n) == SelectSeq(list, LAMBDA x : x.node # n)

\* Mutant: the li is appended
Prepend_Append(list, li) == list \o <<li>>

\* parent.prepend(li)
Prepend(list, li) == <<li>> \o list

CreateTaskElement(task, isCompleted, n) ==
  [ node |-> n, id |-> task.id, createdAt |-> task.createdAt,
    completed |-> isCompleted, editing |-> FALSE,
    dragging |-> FALSE, dragOver |-> FALSE,
    title |-> Rendered(task.title), description |-> Rendered(task.description),
    titleInput |-> <<>>, descInput |-> <<>>,
    currentTitle |-> <<>>, currentDescription |-> <<>> ]

\* The record completeItem and restoreItem read off the li when clicked
TaskOf(li) ==
  [ id |-> li.id, title |-> li.title, description |-> li.description,
    createdAt |-> li.createdAt ]

\* Mutant: a timeout that is pending is left to run
SaveToStorage_NoRestart ==
  saveTimer' = IF saveTimer = NoTimer THEN SaveDelay ELSE saveTimer

\* saveToStorage(): the debounced wrapper restarts the timeout
SaveToStorage == saveTimer' = SaveDelay

UpdateCounts ==
  /\ todoCount' = Len(todoList')
  /\ completedCount' = Len(completedList')

UpdateSections ==
  /\ todoEmptyShown' = (Len(todoList') = 0)
  /\ completedSectionShown' = (Len(completedList') > 0)

Delay(kind) ==
  CASE kind = "complete" -> CompleteDelay
    [] kind = "restore" -> RestoreDelay
    [] kind = "remove" -> RemoveDelay

\* One more click on an item
Click == clicks' = clicks + 1

NoTask == [ id |-> 0, title |-> <<>>, description |-> <<>>, createdAt |-> 0 ]

\* Date.now() when addItem runs: the clock has moved on since the last add
Now == 10 + nextId

\* setTimeout(callback, delay): the callback's closure holds the li (a node,
\* which keeps its data-id attribute when it is detached) and, for a move, the
\* task read off it at the click
NewTimer(kind, li, task) ==
  [ kind |-> kind, li |-> li.node, id |-> li.id, task |-> task,
    rem |-> Delay(kind) ]

SetTimeout(kind, li, task) == timers' = Append(timers, NewTimer(kind, li, task))

\* --------------------------------------------------------------- Init
\* loadTheme(); loadFromStorage() on a first visit: both keys absent
Init ==
  /\ todoList = <<>>
  /\ completedList = <<>>
  /\ timers = <<>>
  /\ saveTimer = NoTimer
  /\ storage = [ todosKind |-> "absent", completedKind |-> "absent",
                 todos |-> <<>>, completed |-> <<>> ]
  /\ todoCount = 0
  /\ completedCount = 0
  /\ todoEmptyShown = TRUE
  /\ completedSectionShown = FALSE
  /\ draggedItem = Null
  /\ taskTitle = <<>>
  /\ taskDescription = <<>>
  /\ nextId = 1
  /\ clicks = 0

\* ------------------------------------------------------------ actions
\* The user types into the title field of the input card
TypeTitle ==
  /\ draggedItem = Null
  /\ nextId <= MaxTasks
  /\ \E s \in TitleTyped : taskTitle' = s
  /\ UNCHANGED << todoList, completedList, timers, saveTimer, storage, todoCount,
                  completedCount, todoEmptyShown, completedSectionShown,
                  draggedItem, taskDescription, nextId, clicks >>

TypeDescription ==
  /\ draggedItem = Null
  /\ nextId <= MaxTasks
  /\ \E s \in DescTyped : taskDescription' = s
  /\ UNCHANGED << todoList, completedList, timers, saveTimer, storage, todoCount,
                  completedCount, todoEmptyShown, completedSectionShown,
                  draggedItem, taskTitle, nextId, clicks >>

\* addItem past its check of the title
AddTask(title, description) ==
  /\ nextId <= MaxTasks
  /\ LET task == [ id |-> nextId, title |-> title,
                   description |-> description, createdAt |-> Now ]
     IN  todoList' = Prepend(todoList, CreateTaskElement(task, FALSE, FreshNode))
  /\ nextId' = nextId + 1
  /\ taskTitle' = <<>>
  /\ taskDescription' = <<>>
  /\ UNCHANGED << completedList, timers, storage, draggedItem, clicks >>
  /\ UpdateCounts
  /\ UpdateSections
  /\ SaveToStorage

\* Mutant: the title is not checked
AddItem_NoCheck ==
  /\ draggedItem = Null
  /\ AddTask(Trim(taskTitle), Trim(taskDescription))

\* Click on + or Enter in one of the two fields
AddItem ==
  /\ draggedItem = Null
  /\ LET title == Trim(taskTitle)
         description == Trim(taskDescription)
     IN  IF title = <<>>
         THEN UNCHANGED vars
         ELSE AddTask(title, description)

\* The events a rendered li has a listener and a target element for.  The
\* checkbox and the six drag listeners are wired once, when the li is
\* created; editItem replaces only the children of .task-content and of
\* .task-actions (edit and delete buttons by save and cancel buttons) and
\* sets draggable to false, so the checkbox stays in place and wired.
Offers(li, event) ==
  CASE event = "completeItem" -> ~li.completed
    [] event = "restoreItem"  -> li.completed
    [] event = "editItem"     -> ~li.completed /\ ~li.editing
    [] event = "removeItem"   -> ~li.editing
    [] event \in { "save", "cancel" } -> li.editing
    [] event = "dragstart"    -> ~li.editing
    [] event = "dragend"      -> li.dragging
    [] OTHER                  -> TRUE

\* The handler raises a TypeError on the li: completeItem, restoreItem and
\* editItem read titleEl.textContent without a null check, and
\* querySelector('.task-text') is null for an li in editing mode.  The other
\* handlers reach into the li through optional chaining or not at all.
Raises(li, event) ==
  /\ event \in { "completeItem", "restoreItem", "editItem" }
  /\ li.editing

\* Click on the checkbox of a pending item.  On an item in editing mode
\* querySelector('.task-text') is null and reading titleEl.textContent throws
\* before anything is changed.
CompleteItem(n) ==
  /\ draggedItem = Null
  /\ n \in Nodes(todoList)
  /\ LET li == todoList[IndexOf(todoList, n)]
     IN  IF Raises(li, "completeItem")
         THEN UNCHANGED vars
         ELSE /\ clicks < MaxClicks
              /\ Click
              /\ SetTimeout("complete", li, TaskOf(li))
              /\ UNCHANGED << todoList, completedList, saveTimer, storage,
                              todoCount, completedCount, todoEmptyShown,
                              completedSectionShown, draggedItem, taskTitle,
                              taskDescription, nextId >>

\* The lists after li.remove() and completedList.prepend(newLi)
AfterComplete(todo, completed, t, n) ==
  [ todo |-> DomRemove(todo, t.li),
    completed |-> Prepend(DomRemove(completed, t.li),
                          CreateTaskElement(t.task, TRUE, n)) ]

\* The callback completeItem hands to setTimeout
CompleteCallback(t) ==
  /\ todoList' = AfterComplete(todoList, completedList, t, FreshNode).todo
  /\ completedList' = AfterComplete(todoList, completedList, t, FreshNode).completed
  /\ UpdateCounts
  /\ UpdateSections
  /\ SaveToStorage

\* Click on the checkbox or on the restore button of a completed item
RestoreItem(n) ==
  /\ draggedItem = Null
  /\ n \in Nodes(completedList)
  /\ clicks < MaxClicks
  /\ Click
  /\ LET li == completedList[IndexOf(completedList, n)]
     IN  SetTimeout("restore", li, TaskOf(li))
  /\ UNCHANGED << todoList, completedList, saveTimer, storage, todoCount,
                  completedCount, todoEmptyShown, completedSectionShown,
                  draggedItem, taskTitle, taskDescription, nextId >>

\* Mutant: the new li is prepended to the list the old one was in
AfterRestore_Stay(todo, completed, t, n) ==
  [ todo |-> DomRemove(todo, t.li),
    completed |-> Prepend(DomRemove(completed, t.li),
                          CreateTaskElement(t.task, TRUE, n)) ]

\* The lists after li.remove() and todoList.prepend(newLi)
AfterRestore(todo, completed, t, n) ==
  [ todo |-> Prepend(DomRemove(todo, t.li),
                     CreateTaskElement(t.task, FALSE, n)),
    completed |-> DomRemove(completed, t.li) ]

\* The callback restoreItem hands to setTimeout
RestoreCallback(t) ==
  /\ todoList' = AfterRestore(todoList, completedList, t, FreshNode).todo
  /\ completedList' = AfterRestore(todoList, completedList, t, FreshNode).completed
  /\ UpdateCounts
  /\ UpdateSections
  /\ SaveToStorage

\* Click on the delete button; an item in editing mode shows none
RemoveItem(n) ==
  /\ draggedItem = Null
  /\ Attached(n)
  /\ clicks < MaxClicks
  /\ Click
  /\ LET list == IF n \in Nodes(todoList) THEN todoList ELSE completedList
         li == list[IndexOf(list, n)]
     IN  /\ ~li.editing
         /\ SetTimeout("remove", li, NoTask)
  /\ UNCHANGED << todoList, completedList, saveTimer, storage, todoCount,
                  completedCount, todoEmptyShown, completedSectionShown,
                  draggedItem, taskTitle, taskDescription, nextId >>

\* Mutant: the item is taken out by list.splice(list.indexOf(li), 1), which
\* takes out the last item when indexOf finds none
RemoveCallback_Splice(t) ==
  /\ todoList' = IF t.li \in Nodes(todoList) \/ todoList = <<>>
                 THEN DomRemove(todoList, t.li)
                 ELSE SubSeq(todoList, 1, Len(todoList) - 1)
  /\ completedList' = DomRemove(completedList, t.li)
  /\ UpdateCounts
  /\ UpdateSections
  /\ SaveToStorage

\* The callback removeItem hands to setTimeout
RemoveCallback(t) ==
  /\ todoList' = DomRemove(todoList, t.li)
  /\ completedList' = DomRemove(completedList, t.li)
  /\ UpdateCounts
  /\ UpdateSections
  /\ SaveToStorage

\* Timeouts run in the order of their deadlines; of two that are due at the
\* same time the one set first runs first unless its delay is the longer one
\* (then it was set up to 100 ms earlier and either may be due first).
Due(i) ==
  /\ timers[i].rem = 0
  /\ \A j \in 1..(i - 1) :
       ~(timers[j].rem = 0 /\ Delay(timers[j].kind) <= Delay(timers[i].kind))

DropTimer(i) == SubSeq(timers, 1, i - 1) \o SubSeq(timers, i + 1, Len(timers))

\* The complete timeout at place i of the pending timeouts runs
CompleteTimeout(i) ==
  /\ i \in 1..Len(timers)
  /\ Due(i)
  /\ timers[i].kind = "complete"
  /\ timers' = DropTimer(i)
  /\ CompleteCallback(timers[i])
  /\ UNCHANGED << storage, draggedItem, taskTitle, taskDescription, nextId,
                  clicks >>

\* The restore timeout at place i of the pending timeouts runs
RestoreTimeout(i) ==
  /\ i \in 1..Len(timers)
  /\ Due(i)
  /\ timers[i].kind = "restore"
  /\ timers' = DropTimer(i)
  /\ RestoreCallback(timers[i])
  /\ UNCHANGED << storage, draggedItem, taskTitle, taskDescription, nextId,
                  clicks >>

\* The remove timeout at place i of the pending timeouts runs
RemoveTimeout(i) ==
  /\ i \in 1..Len(timers)
  /\ Due(i)
  /\ timers[i].kind = "remove"
  /\ timers' = DropTimer(i)
  /\ RemoveCallback(timers[i])
  /\ UNCHANGED << storage, draggedItem, taskTitle, taskDescription, nextId,
                  clicks >>

\* The li of the pending list with one record replaced
SetLi(n, li) == [ todoList EXCEPT ![IndexOf(todoList, n)] = li ]

\* Click on the edit button of a pending item: the spans give way to two inputs
\* holding the current texts, which the closures save and cancel keep
EditItem(n) ==
  /\ draggedItem = Null
  /\ n \in Nodes(todoList)
  /\ LET li == todoList[IndexOf(todoList, n)]
     IN  /\ ~li.editing
         /\ clicks < MaxClicks
         /\ Click
         /\ todoList' = SetLi(n, [ li EXCEPT !.editing = TRUE,
                                             !.title = <<>>,
                                             !.description = <<>>,
                                             !.titleInput = li.title,
                                             !.descInput = li.description,
                                             !.currentTitle = li.title,
                                             !.currentDescription = li.description ])
  /\ UNCHANGED << completedList, timers, saveTimer, storage, todoCount,
                  completedCount, todoEmptyShown, completedSectionShown,
                  draggedItem, taskTitle, taskDescription, nextId >>

\* The user types into the title input of an item in editing mode
TypeEditTitle(n) ==
  /\ draggedItem = Null
  /\ n \in Nodes(todoList)
  /\ LET li == todoList[IndexOf(todoList, n)]
     IN  /\ li.editing
         /\ \E s \in EditTitleTyped :
              todoList' = SetLi(n, [ li EXCEPT !.titleInput = s ])
  /\ UNCHANGED << completedList, timers, saveTimer, storage, todoCount,
                  completedCount, todoEmptyShown, completedSectionShown,
                  draggedItem, taskTitle, taskDescription, nextId, clicks >>

TypeEditDescription(n) ==
  /\ draggedItem = Null
  /\ n \in Nodes(todoList)
  /\ LET li == todoList[IndexOf(todoList, n)]
     IN  /\ li.editing
         /\ \E s \in EditDescTyped :
              todoList' = SetLi(n, [ li EXCEPT !.descInput = s ])
  /\ UNCHANGED << completedList, timers, saveTimer, storage, todoCount,
                  completedCount, todoEmptyShown, completedSectionShown,
                  draggedItem, taskTitle, taskDescription, nextId, clicks >>

\* The li after save or cancel put the spans back
ViewMode(li, title, description) ==
  [ li EXCEPT !.editing = FALSE, !.title = Rendered(title),
              !.description = Rendered(description),
              !.titleInput = <<>>, !.descInput = <<>>,
              !.currentTitle = <<>>, !.currentDescription = <<>> ]

\* save past its check of the title: the spans and the buttons are put back
Commit(n, li, newTitle, newDescription) ==
  /\ todoList' = SetLi(n, ViewMode(li, newTitle, newDescription))
  /\ SaveToStorage
  /\ UNCHANGED << completedList, timers, storage, todoCount, completedCount,
                  todoEmptyShown, completedSectionShown, draggedItem, taskTitle,
                  taskDescription, nextId, clicks >>

\* Mutant: the title is not checked
Save_NoCheck(n) ==
  /\ draggedItem = Null
  /\ n \in Nodes(todoList)
  /\ LET li == todoList[IndexOf(todoList, n)]
     IN  /\ li.editing
         /\ Commit(n, li, Trim(li.titleInput), Trim(li.descInput))

\* Mutant: the edited item is rendered anew and prepended
Save_Rerender(n) ==
  /\ draggedItem = Null
  /\ n \in Nodes(todoList)
  /\ LET li == todoList[IndexOf(todoList, n)]
         newTitle == Trim(li.titleInput)
         newDescription == Trim(li.descInput)
     IN  /\ li.editing
         /\ IF newTitle = <<>>
            THEN UNCHANGED vars
            ELSE /\ todoList' = Prepend(DomRemove(todoList, n),
                                        ViewMode(li, newTitle, newDescription))
                 /\ SaveToStorage
                 /\ UNCHANGED << completedList, timers, storage, todoCount,
                                 completedCount, todoEmptyShown,
                                 completedSectionShown, draggedItem, taskTitle,
                                 taskDescription, nextId, clicks >>

\* save: click on the save button or Enter in one of the two inputs
Save(n) ==
  /\ draggedItem = Null
  /\ n \in Nodes(todoList)
  /\ LET li == todoList[IndexOf(todoList, n)]
         newTitle == Trim(li.titleInput)
         newDescription == Trim(li.descInput)
     IN  /\ li.editing
         /\ IF newTitle = <<>>
            THEN UNCHANGED vars
            ELSE Commit(n, li, newTitle, newDescription)

\* Mutant: cancel puts back what the inputs hold
Cancel_KeepsTyped(n) ==
  /\ draggedItem = Null
  /\ n \in Nodes(todoList)
  /\ LET li == todoList[IndexOf(todoList, n)]
     IN  /\ li.editing
         /\ todoList' = SetLi(n, ViewMode(li, li.titleInput, li.descInput))
  /\ UNCHANGED << completedList, timers, saveTimer, storage, todoCount,
                  completedCount, todoEmptyShown, completedSectionShown,
                  draggedItem, taskTitle, taskDescription, nextId, clicks >>

\* cancel: click on the cancel button or Escape in one of the two inputs
Cancel(n) ==
  /\ draggedItem = Null
  /\ n \in Nodes(todoList)
  /\ LET li == todoList[IndexOf(todoList, n)]
     IN  /\ li.editing
         /\ todoList' = SetLi(n, ViewMode(li, li.currentTitle,
                                          li.currentDescription))
  /\ UNCHANGED << completedList, timers, saveTimer, storage, todoCount,
                  completedCount, todoEmptyShown, completedSectionShown,
                  draggedItem, taskTitle, taskDescription, nextId, clicks >>

\* The task saveToStorage reads off an li: the span's text, else the input's value
StoredTask(li) ==
  [ id |-> li.id,
    title |-> IF li.completed THEN li.title ELSE OrElse(li.title, li.titleInput),
    description |-> IF li.completed THEN li.description
                    ELSE OrElse(li.description, li.descInput),
    createdAt |-> li.createdAt ]

StoredTasks(list) == [ i \in 1..Len(list) |-> StoredTask(list[i]) ]

\* The debounced function of saveToStorage runs
SaveCallback ==
  /\ saveTimer = 0
  /\ saveTimer' = NoTimer
  /\ storage' = [ todosKind |-> "array", completedKind |-> "array",
                  todos |-> StoredTasks(todoList),
                  completed |-> StoredTasks(completedList) ]
  /\ UNCHANGED << todoList, completedList, timers, todoCount, completedCount,
                  todoEmptyShown, completedSectionShown, draggedItem, taskTitle,
                  taskDescription, nextId, clicks >>

\* Mutant: when setItem throws the lists are rendered anew from what is stored
SaveCallbackThrows_Rollback(key) ==
  /\ saveTimer = 0
  /\ saveTimer' = NoTimer
  /\ storage' = storage
  /\ todoList' = [ i \in 1..Len(storage.todos) |->
                     CreateTaskElement(storage.todos[i], FALSE, i) ]
  /\ completedList' = [ i \in 1..Len(storage.completed) |->
                          CreateTaskElement(storage.completed[i], TRUE,
                                            Len(storage.todos) + i) ]
  /\ UpdateCounts
  /\ UpdateSections
  /\ UNCHANGED << timers, draggedItem, taskTitle, taskDescription, nextId,
                  clicks >>

\* The debounced function of saveToStorage runs and localStorage.setItem
\* throws (quota, storage disabled), for the first key or for the second: the
\* exception leaves the callback, which has written what it wrote before
SaveCallbackThrows(key) ==
  /\ saveTimer = 0
  /\ saveTimer' = NoTimer
  /\ storage' = IF key = "TODOS" THEN storage
                ELSE [ storage EXCEPT !.todosKind = "array",
                                      !.todos = StoredTasks(todoList) ]
  /\ UNCHANGED << todoList, completedList, timers, todoCount, completedCount,
                  todoEmptyShown, completedSectionShown, draggedItem, taskTitle,
                  taskDescription, nextId, clicks >>

\* 100 ms pass: no timeout is due
Tick ==
  /\ timers # <<>> \/ saveTimer # NoTimer
  /\ saveTimer # 0
  /\ \A i \in 1..Len(timers) : timers[i].rem > 0
  /\ timers' = [ i \in 1..Len(timers) |->
                   [ timers[i] EXCEPT !.rem = timers[i].rem - 1 ] ]
  /\ saveTimer' = IF saveTimer = NoTimer THEN NoTimer ELSE saveTimer - 1
  /\ UNCHANGED << todoList, completedList, storage, todoCount, completedCount,
                  todoEmptyShown, completedSectionShown, draggedItem, taskTitle,
                  taskDescription, nextId, clicks >>

\* classList.add / classList.remove on the li that is node n
SetClass(list, n, class, on) ==
  [ i \in 1..Len(list) |->
      IF list[i].node # n THEN list[i]
      ELSE IF class = "dragging" THEN [ list[i] EXCEPT !.dragging = on ]
      ELSE [ list[i] EXCEPT !.dragOver = on ] ]

\* dragstart on an item; an item in editing mode is not draggable
HandleDragStart(n) ==
  /\ draggedItem = Null
  /\ Attached(n)
  /\ LET list == IF n \in Nodes(todoList) THEN todoList ELSE completedList
     IN  ~list[IndexOf(list, n)].editing
  /\ clicks < MaxClicks
  /\ Click
  /\ draggedItem' = n
  /\ todoList' = SetClass(todoList, n, "dragging", TRUE)
  /\ completedList' = SetClass(completedList, n, "dragging", TRUE)
  /\ UNCHANGED << timers, saveTimer, storage, todoCount, completedCount,
                  todoEmptyShown, completedSectionShown, taskTitle,
                  taskDescription, nextId >>

\* dragenter on an item: it is marked when it is not the dragged item and is
\* in the list the dragged item is in
HandleDragEnter(n) ==
  /\ Attached(n)
  /\ IF n # draggedItem /\ draggedItem # Null /\ Closest(n) = Closest(draggedItem)
     THEN /\ todoList' = SetClass(todoList, n, "drag-over", TRUE)
          /\ completedList' = SetClass(completedList, n, "drag-over", TRUE)
     ELSE UNCHANGED << todoList, completedList >>
  /\ UNCHANGED << timers, saveTimer, storage, todoCount, completedCount,
                  todoEmptyShown, completedSectionShown, draggedItem, taskTitle,
                  taskDescription, nextId, clicks >>

\* dragleave on an item
HandleDragLeave(n) ==
  /\ Attached(n)
  /\ todoList' = SetClass(todoList, n, "drag-over", FALSE)
  /\ completedList' = SetClass(completedList, n, "drag-over", FALSE)
  /\ UNCHANGED << timers, saveTimer, storage, todoCount, completedCount,
                  todoEmptyShown, completedSectionShown, draggedItem, taskTitle,
                  taskDescription, nextId, clicks >>

\* Mutant: the dragged li always goes before the target
MoveInList_Before(list, dragged, target) ==
  LET li == list[IndexOf(list, dragged)]
      rest == DomRemove(list, dragged)
      at == IndexOf(rest, target)
  IN  SubSeq(rest, 1, at - 1) \o <<li>> \o SubSeq(rest, at, Len(rest))

\* Mutant: the dragged li and the target change places
MoveInList_Swap(list, dragged, target) ==
  LET draggedIndex == IndexOf(list, dragged)
      targetIndex == IndexOf(list, target)
  IN  [ i \in 1..Len(list) |->
          IF i = draggedIndex THEN list[targetIndex]
          ELSE IF i = targetIndex THEN list[draggedIndex]
          ELSE list[i] ]

\* insertBefore: the dragged li goes after the target when it was before it,
\* else before it
MoveInList(list, dragged, target) ==
  LET draggedIndex == IndexOf(list, dragged)
      targetIndex == IndexOf(list, target)
      li == list[draggedIndex]
      rest == DomRemove(list, dragged)
      at == IndexOf(rest, target)
  IN  IF draggedIndex < targetIndex
      THEN SubSeq(rest, 1, at) \o <<li>> \o SubSeq(rest, at + 1, Len(rest))
      ELSE SubSeq(rest, 1, at - 1) \o <<li>> \o SubSeq(rest, at, Len(rest))

\* Mutant: the dragged li is put before the target in whatever list the
\* target is in
HandleDrop_Across(target) ==
  LET li == IF draggedItem \in Nodes(todoList)
            THEN todoList[IndexOf(todoList, draggedItem)]
            ELSE completedList[IndexOf(completedList, draggedItem)]
      Put(list) ==
        LET rest == DomRemove(list, draggedItem)
        IN  IF target \in Nodes(rest)
            THEN SubSeq(rest, 1, IndexOf(rest, target) - 1) \o <<li>>
                   \o SubSeq(rest, IndexOf(rest, target), Len(rest))
            ELSE rest
  IN  IF target # draggedItem /\ Attached(draggedItem)
      THEN [ todo |-> SetClass(Put(todoList), target, "drag-over", FALSE),
             completed |-> SetClass(Put(completedList), target, "drag-over", FALSE) ]
      ELSE [ todo |-> todoList, completed |-> completedList ]

\* The two lists after handleDrop on the target
HandleDrop(target) ==
  LET same == /\ target # draggedItem
              /\ draggedItem # Null
              /\ Closest(target) = Closest(draggedItem)
      todo == IF same /\ Closest(target) = "todoList"
              THEN MoveInList(todoList, draggedItem, target)
              ELSE todoList
      completed == IF same /\ Closest(target) = "completedList"
                   THEN MoveInList(completedList, draggedItem, target)
                   ELSE completedList
  IN  [ todo |-> SetClass(todo, target, "drag-over", FALSE),
        completed |-> SetClass(completed, target, "drag-over", FALSE) ]

\* Mutant: only the dragged li is cleaned
EndedDrag_OnlyDragged(list) ==
  [ i \in 1..Len(list) |->
      IF list[i].node = draggedItem
      THEN [ list[i] EXCEPT !.dragging = FALSE, !.dragOver = FALSE ]
      ELSE list[i] ]

\* The list after handleDragEnd on the dragged item: it is no longer marked
\* as dragged and no li of the list is marked as a drop target
EndedDrag(list) ==
  [ i \in 1..Len(list) |->
      [ list[i] EXCEPT !.dragging = IF list[i].node = draggedItem THEN FALSE ELSE @,
                       !.dragOver = FALSE ] ]

\* handleDragEnd on the dragged item, the lists being as given
HandleDragEnd(lists) ==
  /\ todoList' = EndedDrag(lists.todo)
  /\ completedList' = EndedDrag(lists.completed)
  /\ draggedItem' = Null
  /\ SaveToStorage

\* The item is dropped on a target: drop, then dragend
DropOn(target) ==
  /\ draggedItem # Null
  /\ Attached(target)
  /\ HandleDragEnd(HandleDrop(target))
  /\ UNCHANGED << timers, storage, todoCount, completedCount, todoEmptyShown,
                  completedSectionShown, taskTitle, taskDescription, nextId, clicks >>

\* The drag ends with no drop
DragEnd ==
  /\ draggedItem # Null
  /\ HandleDragEnd([ todo |-> todoList, completed |-> completedList ])
  /\ UNCHANGED << timers, storage, todoCount, completedCount, todoEmptyShown,
                  completedSectionShown, taskTitle, taskDescription, nextId, clicks >>

\* ------------------------------------------------------- loadFromStorage
\* The element null of a stored array
JsonNull == [ json |-> "null" ]

\* task.title?.trim() is truthy
HasTitle(task) == "title" \in DOMAIN task /\ Trim(task.title) # <<>>

\* tasks.forEach(...) of loadFromStorage: the lis appended before the end of
\* the array or the first element whose title cannot be read (null.title
\* throws a TypeError)
RECURSIVE ForEach(_, _, _, _)
ForEach(tasks, isCompleted, list, n) ==
  IF tasks = <<>> THEN [ list |-> list, threw |-> FALSE ]
  ELSE IF Head(tasks) = JsonNull THEN [ list |-> list, threw |-> TRUE ]
  ELSE IF HasTitle(Head(tasks))
       THEN ForEach(Tail(tasks), isCompleted,
                    Append(list, CreateTaskElement(Head(tasks), isCompleted, n)),
                    n + 1)
       ELSE ForEach(Tail(tasks), isCompleted, list, n)

\* JSON.parse(localStorage.getItem(key) || '[]') throws a SyntaxError
ParseThrows(kind) == kind = "malformed"

\* The value parsed has no forEach: an object, a number, null
ForEachThrows(kind) == kind = "object"

\* The body of the try block of loadFromStorage run on an empty document: the
\* two lists, and whether an exception took it to the catch block
Loaded(st) ==
  IF ParseThrows(st.todosKind) \/ ParseThrows(st.completedKind)
       \/ ForEachThrows(st.todosKind)
  THEN [ todo |-> <<>>, completed |-> <<>>, threw |-> TRUE ]
  ELSE LET t == ForEach(st.todos, FALSE, <<>>, 1)
       IN  IF t.threw \/ ForEachThrows(st.completedKind)
           THEN [ todo |-> t.list, completed |-> <<>>, threw |-> TRUE ]
           ELSE LET c == ForEach(st.completed, TRUE, <<>>, Len(t.list) + 1)
                IN  [ todo |-> t.list, completed |-> c.list, threw |-> c.threw ]

\* The counts and the two display settings of the document before a script
\* has run
Document ==
  [ todoCount |-> 0, completedCount |-> 0, todoEmptyShown |-> TRUE,
    completedSectionShown |-> FALSE ]

\* The page is loaded again: the document is new, no timeout of the earlier
\* page is left, and loadFromStorage runs; updateCounts and updateSections
\* are the last statements of its try block
LoadFromStorage ==
  LET r == Loaded(storage)
  IN  /\ todoList' = r.todo
      /\ completedList' = r.completed
      /\ IF r.threw
         THEN /\ todoCount' = Document.todoCount
              /\ completedCount' = Document.completedCount
              /\ todoEmptyShown' = Document.todoEmptyShown
              /\ completedSectionShown' = Document.completedSectionShown
         ELSE UpdateCounts /\ UpdateSections
      /\ timers' = <<>>
      /\ saveTimer' = NoTimer
      /\ draggedItem' = Null
      /\ taskTitle' = <<>>
      /\ taskDescription' = <<>>
      /\ clicks' = 0
      /\ UNCHANGED << storage, nextId >>

\* What an element of a stored array can be: a task, a task whose title is
\* blank, a task with no title, null
Elements(k) ==
  { [ id |-> k, title |-> <<"a">>, description |-> <<>>, createdAt |-> 10 + k ],
    [ id |-> k, title |-> <<" ">>, description |-> <<>>, createdAt |-> 10 + k ],
    [ id |-> k, description |-> <<>>, createdAt |-> 10 + k ],
    JsonNull }

\* The arrays of at most max elements, the ids first, first + 1, ...
Arrays(first, max) ==
  UNION { { a \in [ 1..n -> UNION { Elements(k) : k \in first..(first + max) } ] :
              \A i \in 1..n : a[i] \in Elements(first + i - 1) } : n \in 0..max }

\* What the two entries can hold when the page is loaded
StoredValues ==
  { [ todosKind |-> "array", completedKind |-> "array", todos |-> t, completed |-> c ] :
      t \in Arrays(1, MaxStored), c \in Arrays(MaxStored + 1, MaxStored - 1) }
  \cup { [ todosKind |-> k, completedKind |-> "array", todos |-> <<>>, completed |-> c ] :
           k \in { "absent", "empty", "malformed", "object" },
           c \in Arrays(MaxStored + 1, MaxStored - 1) }
  \cup { [ todosKind |-> "array", completedKind |-> k, todos |-> t, completed |-> <<>> ] :
           t \in Arrays(1, MaxStored),
           k \in { "absent", "empty", "malformed", "object" } }
  \cup { [ todosKind |-> j, completedKind |-> k, todos |-> <<>>, completed |-> <<>> ] :
           j, k \in { "absent", "empty", "malformed", "object" } }

\* The page loaded with the two entries as an earlier visit, or anything else
\* that writes to localStorage, left them: loadFromStorage has run on the
\* document of index.html
InitStored ==
  /\ storage \in StoredValues
  /\ todoList = Loaded(storage).todo
  /\ completedList = Loaded(storage).completed
  /\ todoCount = IF Loaded(storage).threw THEN Document.todoCount
                 ELSE Len(todoList)
  /\ completedCount = IF Loaded(storage).threw THEN Document.completedCount
                      ELSE Len(completedList)
  /\ todoEmptyShown = IF Loaded(storage).threw THEN Document.todoEmptyShown
                      ELSE Len(todoList) = 0
  /\ completedSectionShown =
       IF Loaded(storage).threw THEN Document.completedSectionShown
       ELSE Len(completedList) > 0
  /\ timers = <<>>
  /\ saveTimer = NoTimer
  /\ draggedItem = Null
  /\ taskTitle = <<>>
  /\ taskDescription = <<>>
  /\ nextId = 2 * MaxStored + 1
  /\ clicks = 0

NodeIds == 1..(MaxTasks + MaxClicks + 1)

Next ==
  \/ TypeTitle
  \/ TypeDescription
  \/ AddItem
  \/ \E n \in NodeIds : CompleteItem(n)
  \/ \E n \in NodeIds : RestoreItem(n)
  \/ \E n \in NodeIds : RemoveItem(n)
  \/ \E n \in NodeIds : EditItem(n)
  \/ \E n \in NodeIds : TypeEditTitle(n)
  \/ \E n \in NodeIds : TypeEditDescription(n)
  \/ \E n \in NodeIds : Save(n)
  \/ \E n \in NodeIds : Cancel(n)
  \/ \E i \in 1..MaxClicks : CompleteTimeout(i)
  \/ \E i \in 1..MaxClicks : RestoreTimeout(i)
  \/ \E i \in 1..MaxClicks : RemoveTimeout(i)
  \/ SaveCallback
  \/ Tick
  \/ \E n \in NodeIds : HandleDragStart(n)
  \/ \E n \in NodeIds : HandleDragEnter(n)
  \/ \E n \in NodeIds : HandleDragLeave(n)
  \/ \E n \in NodeIds : DropOn(n)
  \/ DragEnd

Spec == Init /\ [][Next]_vars

\* The page session with a localStorage that may refuse a write
NextQuota ==
  \/ Next
  \/ \E key \in { "TODOS", "COMPLETED" } : SaveCallbackThrows(key)

QuotaSpec == Init /\ [][NextQuota]_vars

\* The event loop: time passes, and a callback whose timeout is due runs
FairSpec ==
  /\ Spec
  /\ WF_vars(Tick)
  /\ WF_vars(SaveCallback)
  /\ WF_vars(\E i \in 1..MaxClicks : CompleteTimeout(i))
  /\ WF_vars(\E i \in 1..MaxClicks : RestoreTimeout(i))
  /\ WF_vars(\E i \in 1..MaxClicks : RemoveTimeout(i))

\* A page loaded with entries in localStorage, on which items are dragged
StoredNodeIds == 1..(2 * MaxStored)

NextStored ==
  \/ LoadFromStorage
  \/ \E n \in StoredNodeIds : HandleDragStart(n)
  \/ \E n \in StoredNodeIds : HandleDragEnter(n)
  \/ \E n \in StoredNodeIds : HandleDragLeave(n)
  \/ \E n \in StoredNodeIds : DropOn(n)
  \/ DragEnd
  \/ SaveCallback
  \/ Tick

LoadSpec == InitStored /\ [][NextStored]_vars

\* ------------------------------------------------------------- claims
\* Both lists, the pending one first
AllItems == todoList \o completedList

AllIds == Ids(todoList) \cup Ids(completedList)

\* A string that is empty or holds only whitespace
IsBlank(s) == \A i \in 1..Len(s) : s[i] = " "

\* The record an item stands for: in editing mode its texts are the ones the
\* closures of editItem keep
Committed(li) ==
  [ id |-> li.id,
    title |-> IF li.editing THEN li.currentTitle ELSE li.title,
    description |-> IF li.editing THEN li.currentDescription ELSE li.description,
    createdAt |-> li.createdAt ]

\* t is s without the whitespace at its two ends
IsTrimOf(t, s) ==
  /\ t # <<>> => t[1] # " " /\ t[Len(t)] # " "
  /\ \E a \in 0..Len(s) :
       /\ a + Len(t) <= Len(s)
       /\ SubSeq(s, a + 1, a + Len(t)) = t
       /\ IsBlank(SubSeq(s, 1, a))
       /\ IsBlank(SubSeq(s, a + Len(t) + 1, Len(s)))

\* C1: in every reachable state each task id occurs at most once across the
\* pending list and the completed list taken together.
C1_UniqueIds ==
  \A i, j \in 1..Len(AllItems) : i # j => AllItems[i].id # AllItems[j].id

\* C2: when the timeout of a complete (restore) click runs, the clicked item is
\* in the source list, leaves it, and the record prepended to the destination
\* has the id, createdAt, title and description the item has at that moment;
\* all other items of both lists stay as they are, in order.
C2_Relocated(src, dst, srcAfter, dstAfter, t) ==
  /\ t.li \in Nodes(src)
  /\ srcAfter = DomRemove(src, t.li)
  /\ Len(dstAfter) = Len(dst) + 1
  /\ Tail(dstAfter) = dst
  /\ TaskOf(Head(dstAfter)) = Committed(src[IndexOf(src, t.li)])

C2_MoveRelocatesRecord ==
  [][ \A i \in 1..Len(timers) :
        /\ CompleteTimeout(i) =>
             C2_Relocated(todoList, completedList, todoList', completedList',
                          timers[i])
        /\ RestoreTimeout(i) =>
             C2_Relocated(completedList, todoList, completedList', todoList',
                          timers[i]) ]_vars

\* C3: when the removal timeout of an item runs, the item's id is in neither
\* list afterwards, and an id that has left both lists never comes back.
C3_DeletedStaysDeleted ==
  [][ /\ \A i \in 1..Len(timers) :
           RemoveTimeout(i) =>
             timers[i].id \notin Ids(todoList') \cup Ids(completedList')
      /\ \A x \in 1..(nextId - 1) :
           x \notin AllIds => x \notin Ids(todoList') \cup Ids(completedList') ]_vars

\* C4: addItem with a title that is not blank makes the pending list one longer,
\* puts the new record (trimmed title and description) first, keeps the
\* earlier pending records in order and leaves the completed list as it is.
C4_AddPrepends ==
  [][ (AddItem /\ ~IsBlank(taskTitle)) =>
        /\ Len(todoList') = Len(todoList) + 1
        /\ Tail(todoList') = todoList
        /\ IsTrimOf(Head(todoList').title, taskTitle)
        /\ IsTrimOf(Head(todoList').description, taskDescription)
        /\ ~Head(todoList').editing
        /\ Head(todoList').id \notin AllIds
        /\ completedList' = completedList ]_vars

\* C4 witness: a second task, typed with a description, has just been added in
\* front of the first
C4_Witness ==
  /\ Len(todoList) = 2
  /\ todoList[1].id = 2
  /\ todoList[2].id = 1
  /\ todoList[1].title = <<"a">>
  /\ todoList[1].description = <<"<">>
  /\ saveTimer = SaveDelay
  /\ taskTitle = <<>>

\* C5: addItem with a blank title changes neither list, no count, no input
\* field, and schedules no write.
C5_BlankAddIsNoOp ==
  [][ (AddItem /\ IsBlank(taskTitle)) =>
        UNCHANGED << todoList, completedList, todoCount, completedCount,
                     todoEmptyShown, completedSectionShown, taskTitle,
                     taskDescription, saveTimer, storage >> ]_vars

\* C5 witness: a whitespace title and a description are in the fields, a task
\* is in the list and no write is pending: addItem leaves this state as it is
C5_Witness ==
  /\ taskTitle = <<" ">>
  /\ taskDescription # <<>>
  /\ Len(todoList) = 1
  /\ saveTimer = NoTimer
  /\ draggedItem = Null

\* C6: save with a title that is not blank changes the title and description
\* of the edited item only: its id, createdAt and place, every other item of
\* the pending list and the completed list stay.
C6_SaveChangesOnlyText ==
  [][ \A n \in Nodes(todoList) :
        LET k == IndexOf(todoList, n)
            li == todoList[k]
        IN  (Save(n) /\ ~IsBlank(li.titleInput)) =>
              /\ Len(todoList') = Len(todoList)
              /\ \A j \in 1..Len(todoList) : j # k => todoList'[j] = todoList[j]
              /\ todoList'[k].node = n
              /\ todoList'[k].id = li.id
              /\ todoList'[k].createdAt = li.createdAt
              /\ ~todoList'[k].editing
              /\ IsTrimOf(todoList'[k].title, li.titleInput)
              /\ IsTrimOf(todoList'[k].description, li.descInput)
              /\ completedList' = completedList ]_vars

\* C6 witness: the second of two pending items carries the title typed in an
\* edit
C6_Witness ==
  /\ Len(todoList) = 2
  /\ ~todoList[2].editing
  /\ todoList[2].title = <<"&">>
  /\ todoList[1].title = <<"a">>

\* C7: save with a blank title leaves the item in editing mode with the texts
\* the closures keep and the inputs as typed, changes nothing else and
\* schedules no write.
C7_BlankSaveRejected ==
  [][ \A n \in Nodes(todoList) :
        LET k == IndexOf(todoList, n)
            li == todoList[k]
        IN  (Save(n) /\ IsBlank(li.titleInput)) =>
              /\ todoList'[k].editing
              /\ Committed(todoList'[k]) = Committed(li)
              /\ UNCHANGED << todoList, completedList, saveTimer, storage >> ]_vars

\* C7 witness: an item in editing mode whose title input holds whitespace
\* only, with no write pending: save leaves this state as it is
C7_Witness ==
  \E k \in 1..Len(todoList) :
    /\ todoList[k].editing
    /\ todoList[k].titleInput = <<" ">>
    /\ todoList[k].currentTitle = <<"a">>
    /\ saveTimer = NoTimer
    /\ draggedItem = Null

\* C8: the closures of editItem keep the texts the item shows when the edit
\* button is clicked, nothing changes them while the item is in editing mode,
\* and cancel puts exactly them back: the item leaves editing mode, nothing
\* else changes and no write is scheduled.
C8_CancelRestores ==
  [][ \A n \in Nodes(todoList) :
        LET k == IndexOf(todoList, n)
            li == todoList[k]
        IN  /\ EditItem(n) =>
                 /\ todoList'[k].currentTitle = li.title
                 /\ todoList'[k].currentDescription = li.description
            /\ (li.editing /\ n \in Nodes(todoList')) =>
                 LET after == todoList'[IndexOf(todoList', n)]
                 IN  after.editing =>
                       /\ after.currentTitle = li.currentTitle
                       /\ after.currentDescription = li.currentDescription
            /\ Cancel(n) =>
                 /\ Len(todoList') = Len(todoList)
                 /\ \A j \in 1..Len(todoList) : j # k => todoList'[j] = todoList[j]
                 /\ ~todoList'[k].editing
                 /\ todoList'[k].node = n
                 /\ TaskOf(todoList'[k]) = Committed(li)
                 /\ UNCHANGED << completedList, saveTimer, storage >> ]_vars

\* C8 witness: a pending item shows its first title again although a write
\* that ran while it was in editing mode stored the title typed then
C8_Witness ==
  \E k \in 1..Len(todoList) : \E j \in 1..Len(storage.todos) :
    /\ ~todoList[k].editing
    /\ todoList[k].title = <<"a">>
    /\ storage.todos[j].id = todoList[k].id
    /\ storage.todos[j].title = <<"&", " ">>

\* C9: from every reachable state, the callback of a complete click on a
\* pending item followed by the callback of a restore click on the item it
\* made (and a restore followed by a complete) leaves the set of ids of each
\* list as it was.
C9_RoundTrip ==
  /\ \A k \in 1..Len(todoList) :
       ~todoList[k].editing =>
         LET li == todoList[k]
             s1 == AfterComplete(todoList, completedList,
                                 NewTimer("complete", li, TaskOf(li)), FreshNode)
             li2 == Head(s1.completed)
             s2 == AfterRestore(s1.todo, s1.completed,
                                NewTimer("restore", li2, TaskOf(li2)),
                                Fresh(UsedNodes \cup {li2.node}))
         IN  /\ Ids(s2.todo) = Ids(todoList)
             /\ Ids(s2.completed) = Ids(completedList)
             /\ Len(s2.todo) = Len(todoList)
             /\ Len(s2.completed) = Len(completedList)
  /\ \A k \in 1..Len(completedList) :
       LET li == completedList[k]
           s1 == AfterRestore(todoList, completedList,
                              NewTimer("restore", li, TaskOf(li)), FreshNode)
           li2 == Head(s1.todo)
           s2 == AfterComplete(s1.todo, s1.completed,
                               NewTimer("complete", li2, TaskOf(li2)),
                               Fresh(UsedNodes \cup {li2.node}))
       IN  /\ Ids(s2.todo) = Ids(todoList)
           /\ Ids(s2.completed) = Ids(completedList)
           /\ Len(s2.todo) = Len(todoList)
           /\ Len(s2.completed) = Len(completedList)

\* C9 witness: task 1 is pending and nothing is completed, while the last
\* write stored it as completed: it was completed and then restored
C9_Witness ==
  /\ Ids(todoList) = {1}
  /\ completedList = <<>>
  /\ timers = <<>>
  /\ Len(storage.completed) = 1
  /\ storage.completed[1].id = 1
  /\ storage.todos = <<>>

\* C10: the removal timeout of an item that is already gone from the lists
\* changes neither list and no count; the one of an item in a list removes
\* that item only and lowers the counts by one.
C10_SecondDeleteIsNoOp ==
  [][ \A i \in 1..Len(timers) :
        RemoveTimeout(i) =>
          IF Attached(timers[i].li)
          THEN /\ todoList' = DomRemove(todoList, timers[i].li)
               /\ completedList' = DomRemove(completedList, timers[i].li)
               /\ Len(todoList') + Len(completedList')
                    = Len(todoList) + Len(completedList) - 1
               /\ todoCount' + completedCount' = todoCount + completedCount - 1
          ELSE UNCHANGED << todoList, completedList, todoCount, completedCount,
                            todoEmptyShown, completedSectionShown >> ]_vars

\* C10 witness: task 1 has been deleted while task 2 is in a list, and a
\* second removal timeout of the deleted item is still pending
C10_Witness ==
  \E i \in 1..Len(timers) :
    /\ timers[i].kind = "remove"
    /\ ~Attached(timers[i].li)
    /\ timers[i].id \notin AllIds
    /\ AllIds # {}

\* The nodes of a list, in order
NodeSeq(list) == [ i \in 1..Len(list) |-> list[i].node ]

\* The records of a list, in order
Records(list) == [ i \in 1..Len(list) |-> Committed(list[i]) ]

\* The dragged item is at index d and the target at index t of the list, and
\* after the drop the dragged item is right after the target when d < t and
\* right before it when d > t, with all other items in the order they had
C11_Placed(before, after, dragged, target) ==
  LET d == IndexOf(before, dragged)
      t == IndexOf(before, target)
      d2 == IndexOf(after, dragged)
      t2 == IndexOf(after, target)
  IN  /\ Len(after) = Len(before)
      /\ Nodes(after) = Nodes(before)
      /\ d < t => d2 = t2 + 1
      /\ d > t => d2 = t2 - 1
      /\ NodeSeq(DomRemove(after, dragged)) = NodeSeq(DomRemove(before, dragged))
      /\ \A i \in 1..Len(before) :
           Committed(after[IndexOf(after, before[i].node)]) = Committed(before[i])

\* C11: a drop on another item of the list the dragged item is in puts the
\* dragged item right after the target when it was before it and right before
\* the target otherwise; the list keeps its items, the others in the order
\* they had, and the other list stays as it is.
C11_DropPlacesItem ==
  [][ \A target \in StoredNodeIds :
        ( /\ DropOn(target)
          /\ target # draggedItem
          /\ Closest(target) = Closest(draggedItem) ) =>
          IF Closest(target) = "todoList"
          THEN /\ C11_Placed(todoList, todoList', draggedItem, target)
               /\ Records(completedList') = Records(completedList)
          ELSE /\ C11_Placed(completedList, completedList', draggedItem, target)
               /\ Records(todoList') = Records(todoList) ]_vars

\* C11 witness: the first of three pending items has been dropped on the third
C11_Witness ==
  /\ NodeSeq(todoList) = << 2, 3, 1 >>
  /\ draggedItem = Null
  /\ saveTimer = SaveDelay
  /\ storage.todosKind = "array"
  /\ Len(storage.todos) = 3
  /\ \A i \in 1..3 : storage.todos[i].id = i

\* The ids of a list, in order
IdSeq(list) == [ i \in 1..Len(list) |-> list[i].id ]

\* Dragging the item at index i onto the one at index j and then the item at
\* index j onto the one at index i gives the list back
C12_BackAgain(list) ==
  \A i, j \in 1..Len(list) :
    i # j =>
      LET once == MoveInList(list, list[i].node, list[j].node)
          twice == MoveInList(once, once[j].node, once[i].node)
      IN  /\ once[j].node = list[i].node
          /\ twice = list

\* C12: in every reachable list, for all distinct indices i and j, the drop
\* of the item at i on the item at j followed by the drop of the item then at
\* j on the item then at i restores the order of the list.
C12_ReorderRoundTrip ==
  /\ C12_BackAgain(todoList)
  /\ C12_BackAgain(completedList)

\* C12 witness: three pending items are in the order they were loaded in after
\* two drops, the first of which was stored as the order 2, 3, 1
C12_Witness ==
  /\ IdSeq(todoList) = << 1, 2, 3 >>
  /\ NodeSeq(todoList) = << 1, 2, 3 >>
  /\ clicks = 2
  /\ draggedItem = Null
  /\ saveTimer = SaveDelay
  /\ IdSeq(storage.todos) = << 2, 3, 1 >>

\* The items of a list that carry the drag-over indicator
Marked(list) == { list[i].node : i \in { k \in 1..Len(list) : list[k].dragOver } }

\* C13: while an item of one list is dragged no item of the other list carries the
\* drag-over indicator, whatever dragenter events have run; and a drop on an
\* item of the other list leaves both lists with the records they had, in
\* the order they had.
C13_CrossListDragIgnored ==
  /\ [](draggedItem # Null =>
          /\ Closest(draggedItem) = "completedList" => Marked(todoList) = {}
          /\ Closest(draggedItem) = "todoList" => Marked(completedList) = {})
  /\ [][ \A target \in StoredNodeIds :
           (DropOn(target) /\ Closest(target) # Closest(draggedItem)) =>
             /\ NodeSeq(todoList') = NodeSeq(todoList)
             /\ NodeSeq(completedList') = NodeSeq(completedList)
             /\ Records(todoList') = Records(todoList)
             /\ Records(completedList') = Records(completedList) ]_vars

\* C13 witness: a pending item is dragged, an item of its list is marked as a
\* drop target, and there are completed items to enter and to drop on
C13_Witness ==
  /\ draggedItem # Null
  /\ Closest(draggedItem) = "todoList"
  /\ Marked(todoList) # {}
  /\ Len(completedList) = 2

\* No item of the two lists carries the dragging or the drag-over indicator
NoIndicator(todo, completed) ==
  \A i \in 1..Len(todo \o completed) :
    ~(todo \o completed)[i].dragging /\ ~(todo \o completed)[i].dragOver

\* C14: draggedItem becomes non-null in handleDragStart only and null in
\* handleDragEnd only; after every handleDragEnd, with a drop or without,
\* it is null and no item of either list carries an indicator, and so it is
\* whenever no drag is in progress.
C14_DragReferenceCleared ==
  /\ [](draggedItem = Null => NoIndicator(todoList, completedList))
  /\ [][ /\ (DragEnd \/ \E target \in NodeIds : DropOn(target)) =>
             /\ draggedItem' = Null
             /\ NoIndicator(todoList', completedList')
         /\ (draggedItem = Null /\ draggedItem' # Null) =>
             \E n \in NodeIds : HandleDragStart(n)
         /\ (draggedItem # Null /\ draggedItem' # draggedItem) =>
             (DragEnd \/ \E target \in NodeIds : DropOn(target)) ]_vars

\* C14 witness: the older of two pending items is first after the only click
\* so far, a drag that ended with a drop, and nothing is marked
C14_Witness ==
  /\ IdSeq(todoList) = << 1, 2 >>
  /\ clicks = 1
  /\ draggedItem = Null
  /\ NoIndicator(todoList, completedList)

\* C15: after loadFromStorage and after every handler or callback the two
\* counts displayed are the lengths of the two lists, the placeholder of the
\* pending list is displayed iff that list is empty and the completed section
\* iff the completed list is not empty.
C15_DerivedUi ==
  /\ todoCount = Len(todoList)
  /\ completedCount = Len(completedList)
  /\ todoEmptyShown <=> (todoList = <<>>)
  /\ completedSectionShown <=> (completedList # <<>>)

\* A stored array holds the items of a list in order, each item that is not
\* in editing mode with its record
StoredAsIs(stored, list) ==
  /\ Len(stored) = Len(list)
  /\ \A i \in 1..Len(list) :
       /\ stored[i].id = list[i].id
       /\ stored[i].createdAt = list[i].createdAt
       /\ ~list[i].editing => stored[i] = Committed(list[i])

SameRecords(loaded, list) ==
  /\ IdSeq(loaded) = IdSeq(list)
  /\ \A i \in 1..Len(list) :
       /\ loaded[i].createdAt = list[i].createdAt
       /\ ~list[i].editing => Committed(loaded[i]) = Committed(list[i])

\* C17: whenever saveToStorage writes, loadFromStorage run on the two entries
\* written and an empty document gives the pending and the completed list as
\* they are at the write, record by record and in order.
C17_SaveLoadRoundTrip ==
  [][ SaveCallback =>
        LET r == Loaded(storage')
        IN  /\ ~r.threw
            /\ SameRecords(r.todo, todoList)
            /\ SameRecords(r.completed, completedList) ]_vars

\* An entry that is absent, empty or an array of task records
WellFormed(kind, items) ==
  /\ kind \in { "absent", "empty", "array" }
  /\ \A i \in 1..Len(items) : items[i] # JsonNull

\* The ids of the records of an array whose title is not blank
ValidIds(items) == { items[i].id : i \in { k \in 1..Len(items) : HasTitle(items[k]) } }

\* C18: with text that is not JSON under one key and an array of records
\* under the other, the list of the first key is empty and the list of the
\* other key holds the records of its array that have a title.
C18_MalformedKeyIsolated ==
  /\ ( /\ storage.todosKind = "malformed"
       /\ WellFormed(storage.completedKind, storage.completed) ) =>
       /\ todoList = <<>>
       /\ Ids(completedList) = ValidIds(storage.completed)
  /\ ( /\ storage.completedKind = "malformed"
       /\ WellFormed(storage.todosKind, storage.todos) ) =>
       /\ completedList = <<>>
       /\ Ids(todoList) = ValidIds(storage.todos)

\* The records of a stored array that loadFromStorage is to keep
Kept(items) == SelectSeq(items, HasTitle)

\* A list holds the records of a stored array whose title is not blank, each
\* once and in the order of the array
HoldsKept(list, items) ==
  /\ Len(list) = Len(Kept(items))
  /\ \A i \in 1..Len(list) : TaskOf(list[i]) = Kept(items)[i]

\* C19: after a load, before any drag, each list holds the records of the
\* array under its key that have a title that is not blank, each once and in
\* stored order; for an absent key the list is empty.
C19_LoadKeepsValidRecords ==
  clicks = 0 =>
    /\ WellFormed(storage.todosKind, storage.todos) =>
         HoldsKept(todoList, storage.todos)
    /\ WellFormed(storage.completedKind, storage.completed) =>
         HoldsKept(completedList, storage.completed)

\* C20: a write that fails leaves both lists, the counts and the two display
\* settings, the pending timeouts, the input fields and the drag as they
\* are, and leaves no write pending, as a write that succeeds does; with
\* writes failing the counts stay current after every handler and callback.
C20_FailedWriteHarmless ==
  /\ [][ (\E key \in { "TODOS", "COMPLETED" } : SaveCallbackThrows(key)) =>
           /\ UNCHANGED << todoList, completedList, timers, todoCount,
                           completedCount, todoEmptyShown, completedSectionShown,
                           draggedItem, taskTitle, taskDescription, nextId,
                           clicks >>
           /\ saveTimer' = NoTimer ]_vars
  /\ []C15_DerivedUi

\* C20 witness: a write failed at the second setItem: the pending task is
\* stored, the completed one is not, both are in their lists
C20_Witness ==
  /\ storage.todosKind = "array"
  /\ storage.completedKind = "absent"
  /\ saveTimer = NoTimer
  /\ Len(todoList) = 1
  /\ Len(completedList) = 1
  /\ todoCount = 1
  /\ completedCount = 1

\* C21: every write to storage records, for each pending item, the title and
\* the description it last committed: for an item in editing mode these are
\* the texts it showed when editing began, never what its inputs hold.
C21_WritesCommittedText ==
  [][ SaveCallback =>
        /\ Len(storage'.todos) = Len(todoList)
        /\ \A i \in 1..Len(todoList) :
             /\ storage'.todos[i].id = todoList[i].id
             /\ storage'.todos[i].title = Committed(todoList[i]).title
             /\ storage'.todos[i].description =
                  Committed(todoList[i]).description ]_vars

\* The events of an item
Events ==
  { "completeItem", "restoreItem", "editItem", "removeItem", "save", "cancel",
    "dragstart", "dragend", "dragover", "dragenter", "dragleave", "drop" }

\* C22: in every reachable state, no event that a rendered item offers
\* makes its handler raise; in particular a click on the completion toggle
\* of a pending item in editing mode does not.
C22_NoHandlerRaises ==
  \A i \in 1..Len(AllItems) : \A event \in Events :
    Offers(AllItems[i], event) => ~Raises(AllItems[i], event)

====
